---- MODULE Spec2Model ----
(***************************************************************************)
(* State-machine model of lib/model/TitmouseVolumeNet.py.                  *)
(*                                                                         *)
(* Tensors are functions over 1..BatchSize and 1..NumPoints; real numbers  *)
(* are scaled integers.  The module is configured with                     *)
(* opt.feat_type = 'volume' (the only setting in which pcd_filter has a    *)
(* volume_filter to call).  A method that raises leaves the assignments it *)
(* made before the raise in place and sets `raised`.                       *)
(***************************************************************************)
EXTENDS Integers, Sequences, FiniteSets, TLC

\* ---------------------------------------------------------------- bounds
BatchSize == 2        \* B: batch elements of every input tensor
NumPoints == 1        \* N: query points per batch element
NumPcd    == 2        \* points of the point cloud per batch element
MaxStacks == 2        \* the image filter produces 1..MaxStacks stacks
MaxVol    == 2        \* the volume filter produces 1..MaxVol outputs
CoordMax  == 2        \* projected coordinates range over -CoordMax..CoordMax
PredMax   == 3        \* the classifier's Sigmoid output, in steps of 1/PredMax
reso_grid == 2        \* opt.reso_grid

\* ------------------------------------------------------------- constants
bb_min == -1
bb_max == 1

None == <<>>

Batch  == 1..BatchSize
Points == 1..NumPoints

Min(a, b) == IF a <= b THEN a ELSE b
Abs(a) == IF a < 0 THEN -a ELSE a

RECURSIVE SumSeq(_)
SumSeq(q) == IF q = <<>> THEN 0 ELSE Head(q) + SumSeq(Tail(q))

\* ------------------------------------------------------------------ state
VARIABLES
  training,                 \* nn.Module.training
  num_stack,                \* number of stacks image_filter returns
  num_vol,                  \* number of outputs volume_filter returns
  skip_hourglass,           \* opt.skip_hourglass
  im_feat_list, tmpx, normx,
  voxel_feat_list,
  intermediate_preds_list,
  preds, labels,
  occupancies,              \* the grid built by the last pcd_filter
  kd_idx,                   \* what kdtree.query returned in the last pcd_filter
  op, args, calls, raised, ret   \* the last call: name, inputs, methods entered, outcome

vars == <<training, num_stack, num_vol, skip_hourglass, im_feat_list, tmpx, normx,
          voxel_feat_list, intermediate_preds_list, preds, labels,
          occupancies, kd_idx, op, args, calls, raised, ret>>

\* The object as one record, so that methods compose as in forward().
Self ==
  [training |-> training, num_stack |-> num_stack, num_vol |-> num_vol,
   skip_hourglass |-> skip_hourglass,
   im_feat_list |-> im_feat_list, tmpx |-> tmpx, normx |-> normx,
   voxel_feat_list |-> voxel_feat_list,
   intermediate_preds_list |-> intermediate_preds_list,
   preds |-> preds, labels |-> labels,
   occupancies |-> occupancies, kd_idx |-> kd_idx,
   args |-> args, calls |-> <<>>, raised |-> FALSE, ret |-> None]

Commit(name, s) ==
  /\ training' = s.training
  /\ num_stack' = s.num_stack
  /\ num_vol' = s.num_vol
  /\ skip_hourglass' = s.skip_hourglass
  /\ im_feat_list' = s.im_feat_list
  /\ tmpx' = s.tmpx
  /\ normx' = s.normx
  /\ voxel_feat_list' = s.voxel_feat_list
  /\ intermediate_preds_list' = s.intermediate_preds_list
  /\ preds' = s.preds
  /\ labels' = s.labels
  /\ occupancies' = s.occupancies
  /\ kd_idx' = s.kd_idx
  /\ op' = name
  /\ args' = s.args
  /\ calls' = s.calls
  /\ raised' = s.raised
  /\ ret' = s.ret

Enter(s, name) == [s EXCEPT !.calls = Append(@, name)]
Raise(s) == [s EXCEPT !.raised = TRUE, !.ret = None]

\* ----------------------------------------------------------- __init__
NoArgs == [images |-> 0, pcd |-> None, xyz |-> None]

Constructed ==
  /\ training = TRUE
  /\ num_stack \in 1..MaxStacks
  /\ num_vol \in 1..MaxVol
  /\ skip_hourglass \in BOOLEAN
  /\ im_feat_list = <<>>
  /\ tmpx = None
  /\ normx = None
  /\ voxel_feat_list = <<>>
  /\ intermediate_preds_list = <<>>
  /\ preds = None
  /\ labels = None
  /\ occupancies = None
  /\ kd_idx = None
  /\ op = "__init__"
  /\ calls = <<>>
  /\ raised = FALSE
  /\ ret = None

Init == Constructed /\ args = NoArgs

\* ------------------------------------------------------------- filter
\* HGFilter.forward: one feature map per stack, plus tmpx and normx.
image_filter(s, images) ==
  [outputs |-> [i \in 1..s.num_stack |-> [img |-> images, stack |-> i]],
   tmpx |-> <<"tmpx", images>>,
   normx |-> <<"normx", images>>]

\* filter keeping the first stack when not training: [self.im_feat_list[0]]
filter_first(s0, images) ==
  LET s == [Enter(s0, "filter") EXCEPT !.args.images = images]
      r == image_filter(s, images)
      s1 == [s EXCEPT !.im_feat_list = r.outputs, !.tmpx = r.tmpx, !.normx = r.normx]
  IN IF ~ s1.training
       THEN IF Len(s1.im_feat_list) = 0
              THEN Raise(s1)
              ELSE [s1 EXCEPT !.im_feat_list = << s1.im_feat_list[1] >>]
       ELSE s1

filter(s0, images) ==
  LET s == [Enter(s0, "filter") EXCEPT !.args.images = images]
      r == image_filter(s, images)
      s1 == [s EXCEPT !.im_feat_list = r.outputs, !.tmpx = r.tmpx, !.normx = r.normx]
  IN IF ~ s1.training
       THEN IF Len(s1.im_feat_list) = 0
              THEN Raise(s1)
              ELSE [s1 EXCEPT !.im_feat_list = << s1.im_feat_list[Len(s1.im_feat_list)] >>]
       ELSE s1

\* --------------------------------------------------------- pcd_filter
\* Coordinates of the point cloud and of the grid are in units of
\* 1/GridScale, so that the reso_grid values of linspace(bb_min, bb_max)
\* are integers and lie 4 units apart.
GridScale == 2 * (reso_grid - 1)
Cells == 0..(reso_grid * reso_grid * reso_grid - 1)

linspace(i) == bb_min * GridScale + i * (((bb_max - bb_min) * GridScale) \div (reso_grid - 1))

\* create_grid_points_from_bounds: the reso_grid^3 lattice, x-major.
grid_points ==
  [c \in Cells |->
     << linspace(c \div (reso_grid * reso_grid)),
        linspace((c \div reso_grid) % reso_grid),
        linspace(c % reso_grid) >>]

Dist2(p, q) ==
  (p[1] - q[1]) * (p[1] - q[1]) + (p[2] - q[2]) * (p[2] - q[2]) + (p[3] - q[3]) * (p[3] - q[3])

\* point clouds: a coordinate is just outside the box, midway between two
\* grid values, or just inside the box
PcdCoord == {bb_min * GridScale - 1, bb_min * GridScale + 2, bb_max * GridScale - 1}
PcdDefaults == { <<bb_min * GridScale - 1, bb_min * GridScale, bb_min * GridScale + 1>>,
                 <<1, 1, 1>> }
PcdPoints == (PcdCoord \X PcdCoord \X PcdCoord) \cup PcdDefaults

\* KDTree(self.grid_points), built once: for every point the grid points
\* nearest to it.
kdtree ==
  [p \in PcdPoints |->
     {c \in Cells : \A d \in Cells : Dist2(p, grid_points[c]) <= Dist2(p, grid_points[d])}]

\* cKDTree.query(p): the index of a nearest grid point; which one of several
\* equally near grid points it returns is left to the tree.
kdtree_query(p) == kdtree[p]

\* all tuples t with t[i] \in sets[i]
RECURSIVE Tuples(_)
Tuples(sets) ==
  IF sets = <<>> THEN {<<>>}
  ELSE {<<x>> \o t : x \in Head(sets), t \in Tuples(Tail(sets))}

\* _, idx = self.kdtree.query(kp_pred[b]), for every b
KdResults(pcd) ==
  Tuples([b \in Batch |-> Tuples([n \in 1..NumPcd |-> kdtree_query(pcd[b][n])])])

new_zeros == [b \in Batch |-> [c \in Cells |-> 0]]

\* occupancies[:, idx] = 1: the index marked in every batch element
RECURSIVE index_put_all(_, _, _, _)
index_put_all(occ, b, idx, k) ==
  IF k > Len(idx) THEN occ
  ELSE index_put_all([bb \in Batch |-> [occ[bb] EXCEPT ![idx[k]] = 1]], b, idx, k + 1)

\* occupancies[b, idx] = 1, one index at a time
RECURSIVE index_put(_, _, _, _)
index_put(occ, b, idx, k) ==
  IF k > Len(idx) THEN occ
  ELSE index_put([occ EXCEPT ![b][idx[k]] = 1], b, idx, k + 1)

\* for b in range(pcd.size(0))
RECURSIVE voxelize(_, _, _)
voxelize(occ, idx, b) ==
  IF b > BatchSize THEN occ
  ELSE voxelize(index_put(occ, b, idx[b], 1), idx, b + 1)

\* VolumeEncoder.forward: a list of encodings of the occupancy volume; an
\* encoding is written as the occupied cells of every batch element.
encode(grid) == [b \in Batch |-> {c \in Cells : grid[b][c] = 1}]

volume_filter(s, grid) == [j \in 1..s.num_vol |-> [vol |-> encode(grid), level |-> j]]

pcd_filter(s0, pcd, idx) ==
  LET s == [Enter(s0, "pcd_filter") EXCEPT !.args.pcd = pcd]
      occ == voxelize(new_zeros, idx, 1)
      s1 == [s EXCEPT !.kd_idx = idx, !.occupancies = occ,
                      !.voxel_feat_list = volume_filter(s, occ)]
  IN IF ~ s1.training
       THEN IF Len(s1.voxel_feat_list) = 0
              THEN Raise(s1)
              ELSE [s1 EXCEPT !.voxel_feat_list = << s1.voxel_feat_list[Len(s1.voxel_feat_list)] >>]
       ELSE s1

\* -------------------------------------------------------------- query
\* in_img with the bounds excluded
in_img_open(p) == IF (p[1] > -1) /\ (p[1] < 1) /\ (p[2] > -1) /\ (p[2] < 1) THEN 1 ELSE 0

\* xy[:, 0] >= -1.0 & xy[:, 0] <= 1.0 & xy[:, 1] >= -1.0 & xy[:, 1] <= 1.0, as 0.0 / 1.0
in_img(p) == IF (p[1] >= -1) /\ (p[1] <= 1) /\ (p[2] >= -1) /\ (p[2] <= 1) THEN 1 ELSE 0

\* self.index(feat, xy): the feature map sampled at xy.
index(feat, b, p) == 3 * feat.img + feat.stack + b + p[1] + 2 * p[2]

index_tmpx(t, b, p) == t[2] + b + p[1]

\* F.grid_sample(voxel_feat, vgrid): the volume encoding sampled at xyz.
grid_sample(voxel_feat, b, p) ==
  voxel_feat.level + Cardinality(voxel_feat.vol[b]) + p[1] + p[3]

\* SurfaceClassifier with last_op = Sigmoid: a value in [0, 1], in steps of 1/PredMax.
surface_classifier(point_local_feat_list) == SumSeq(point_local_feat_list) % (PredMax + 1)

point_local_feat(s, im_feat, voxel_feat, b, p) ==
  LET l == << index(im_feat, b, p), grid_sample(voxel_feat, b, p), p[3] >>
  IN IF s.skip_hourglass THEN Append(l, index_tmpx(s.tmpx, b, p)) ELSE l

\* pred = in_img[:, None].float() * self.surface_classifier(point_local_feat)
pred_of(s, im_feat, voxel_feat, xyz) ==
  [b \in Batch |-> [n \in Points |->
     in_img(xyz[b][n]) * surface_classifier(point_local_feat(s, im_feat, voxel_feat, b, xyz[b][n]))]]

\* Python's l[-k:]
slice_last(l, k) ==
  IF k = 0 \/ k >= Len(l) THEN l ELSE SubSeq(l, Len(l) - k + 1, Len(l))

query(s0, xyz, lab) ==
  LET s == [Enter(s0, "query") EXCEPT !.args.xyz = xyz]
      s1 == IF lab # None THEN [s EXCEPT !.labels = lab] ELSE s
  IN IF s1.skip_hourglass /\ s1.tmpx = None
       THEN Raise(s1)
       ELSE
         LET ims == slice_last(s1.im_feat_list, Len(s1.voxel_feat_list))
             n == Min(Len(ims), Len(s1.voxel_feat_list))
             ps == [i \in 1..n |-> pred_of(s1, ims[i], s1.voxel_feat_list[i], xyz)]
             s2 == [s1 EXCEPT !.intermediate_preds_list = ps, !.im_feat_list = ims]
         IN IF n = 0 THEN Raise(s2) ELSE [s2 EXCEPT !.preds = ps[n]]

\* ---------------------------------------------- get_preds, get_error
\* BasePIFuNet.get_preds
get_preds(s0) ==
  LET s == Enter(s0, "get_preds") IN [s EXCEPT !.ret = s.preds]

get_im_feat(s0) ==
  LET s == Enter(s0, "get_im_feat")
  IN IF Len(s.im_feat_list) = 0 THEN Raise(s)
     ELSE [s EXCEPT !.ret = s.im_feat_list[Len(s.im_feat_list)]]

\* The error term of one prediction: the summed absolute difference to the
\* labels (labels are 0 or 1, predictions in steps of 1/PredMax).
error_term(p, lab) ==
  SumSeq([b \in Batch |-> SumSeq([n \in Points |-> Abs(p[b][n] - PredMax * lab[b][n])])])

\* error += error_term(preds, labels) over the list
RECURSIVE accumulate(_, _, _, _)
accumulate(error, l, lab, k) ==
  IF k > Len(l) THEN error
  ELSE accumulate(error + error_term(l[k], lab), l, lab, k + 1)

\* get_error dividing by the number of stacks of the image filter
get_error_per_stack(s0) ==
  LET s == Enter(s0, "get_error")
      l == s.intermediate_preds_list
  IN IF Len(l) = 0 \/ s.labels = None THEN Raise(s)
     ELSE [s EXCEPT !.ret = [num |-> accumulate(0, l, s.labels, 1), den |-> s.num_stack]]

\* The quotient error / len(...) is kept as the pair numerator, denominator.
get_error(s0) ==
  LET s == Enter(s0, "get_error")
      l == s.intermediate_preds_list
  IN IF Len(l) = 0 \/ s.labels = None THEN Raise(s)
     ELSE [s EXCEPT !.ret = [num |-> accumulate(0, l, s.labels, 1), den |-> Len(l)]]

\* ------------------------------------------------------------ forward
\* forward with the point query ahead of the point-cloud filter
forward_query_early(s0, images, pcd, idx, xyz, lab) ==
  LET s1 == filter(s0, images)
      s2 == IF s1.raised THEN s1 ELSE query(s1, xyz, lab)
      s3 == IF s2.raised THEN s2 ELSE pcd_filter(s2, pcd, idx)
      s4 == IF s3.raised THEN s3 ELSE get_preds(s3)
      s5 == IF s4.raised THEN s4 ELSE get_error(s4)
  IN IF s5.raised THEN s5 ELSE [s5 EXCEPT !.ret = << s4.ret, s5.ret >>]

forward(s0, images, pcd, idx, xyz, lab) ==
  LET s1 == filter(s0, images)
      s2 == IF s1.raised THEN s1 ELSE pcd_filter(s1, pcd, idx)
      s3 == IF s2.raised THEN s2 ELSE query(s2, xyz, lab)
      s4 == IF s3.raised THEN s3 ELSE get_preds(s3)
      s5 == IF s4.raised THEN s4 ELSE get_error(s4)
  IN IF s5.raised THEN s5 ELSE [s5 EXCEPT !.ret = << s4.ret, s5.ret >>]

\* ------------------------------------------------------------- inputs
\* two distinct image batches
Images == {1, 2}

\* A tensor that is d everywhere except p at (b0, n0).
OneOff(b0, n0, p, d, N) ==
  [b \in Batch |-> [n \in 1..N |-> IF b = b0 /\ n = n0 THEN p ELSE d]]

Probes(P, D, N) ==
  {OneOff(b0, n0, p, d, N) : b0 \in Batch, n0 \in 1..N, p \in P, d \in D}

PcdAll == Probes(PcdCoord \X PcdCoord \X PcdCoord, PcdDefaults, NumPcd)
PcdSmall == {OneOff(1, 1, <<1, 1, 1>>, d, NumPcd) : d \in PcdDefaults}

\* projected query points xyz = self.projection(points, calibs, transforms)
Coord == -CoordMax..CoordMax
XyzDefaults == { <<0, 0, 0>>, <<CoordMax, 1, 1>> }
XyzAll == Probes(Coord \X Coord \X {1}, XyzDefaults, NumPoints)
XyzSmall == {OneOff(1, 1, <<0, 0, 0>>, <<CoordMax, 1, 1>>, NumPoints)}

LabelsSome == {[b \in Batch |-> [n \in Points |-> b % 2]]}
LabelsAll == {None} \cup LabelsSome

\* ------------------------------------------------------------ actions
\* nn.Module.train() / eval()
Train == Commit("train", [Enter(Self, "train") EXCEPT !.training = TRUE])
Eval == Commit("eval", [Enter(Self, "eval") EXCEPT !.training = FALSE])

DoFilter(I) == \E images \in I : Commit("filter", filter(Self, images))

DoPcdFilter(P) ==
  \E pcd \in P : \E idx \in KdResults(pcd) : Commit("pcd_filter", pcd_filter(Self, pcd, idx))

DoQuery(X, L) ==
  \E xyz \in X : \E lab \in L : Commit("query", query(Self, xyz, lab))

DoForward(I, P, X, L) ==
  \E images \in I : \E pcd \in P : \E idx \in KdResults(pcd) : \E xyz \in X : \E lab \in L :
    Commit("forward", forward(Self, images, pcd, idx, xyz, lab))

Filter == DoFilter(Images)
PcdFilter == DoPcdFilter(PcdSmall)
Query == DoQuery(XyzSmall, LabelsAll)
GetPreds == Commit("get_preds", get_preds(Self))
GetImFeat == Commit("get_im_feat", get_im_feat(Self))
GetError == Commit("get_error", get_error(Self))
Forward == DoForward(Images, PcdSmall, XyzSmall, LabelsAll)

Next == Train \/ Eval \/ Filter \/ PcdFilter \/ Query \/ GetPreds \/ GetImFeat \/ GetError \/ Forward

Spec == Init /\ [][Next]_vars

\* The query applied to points drawn at the start: every projected
\* coordinate at one point of the batch.
\* (with the most stacks, so that intermediate_preds_list has several entries)
InitQuery ==
  /\ Constructed /\ num_stack = MaxStacks /\ num_vol = MaxVol
  /\ args \in {[NoArgs EXCEPT !.xyz = x] : x \in XyzAll}

PcdOne == {OneOff(1, 1, <<1, 1, 1>>, <<bb_min * GridScale - 1, bb_min * GridScale, bb_min * GridScale + 1>>, NumPcd)}

QueryGiven == DoQuery({args.xyz}, {None})
ForwardGiven == DoForward({1}, PcdOne, {args.xyz}, LabelsSome)

NextQuery == Train \/ Eval \/ QueryGiven \/ GetPreds \/ ForwardGiven

SpecQuery == InitQuery /\ [][NextQuery]_vars

\* The voxelization applied to a point cloud drawn at the start: every
\* coordinate at one point of the cloud.
\* (the image side of the configuration plays no part in it)
InitVoxel ==
  /\ Constructed /\ num_stack = 1 /\ ~ skip_hourglass
  /\ args \in {[NoArgs EXCEPT !.pcd = x] : x \in PcdAll}

PcdFilterGiven == DoPcdFilter({args.pcd})

NextVoxel == Train \/ Eval \/ PcdFilterGiven

SpecVoxel == InitVoxel /\ [][NextVoxel]_vars

\* ============================================================== claims
Last(l) == l[Len(l)]

\* forward() got past query() exactly when it entered get_preds()
QueryDone == (op = "query" /\ ~ raised) \/ (op = "forward" /\ Len(calls) >= 4)

ForwardOrder == << "filter", "pcd_filter", "query", "get_preds", "get_error" >>

Inside(p) == p[1] \in -1..1 /\ p[2] \in -1..1

ClassifierOutput(i, b, n) ==
  surface_classifier(point_local_feat(Self, im_feat_list[i], voxel_feat_list[i], b, args.xyz[b][n]))

\* C1: after query, in every entry of intermediate_preds_list a point whose
\* projected (x, y) is not inside [-1, 1] x [-1, 1] has prediction 0, a point
\* inside (bounds included) has the classifier's output, and the same holds
\* of preds and of what get_preds / forward return.
C1_OutOfImageIsZero ==
  /\ QueryDone =>
       /\ intermediate_preds_list # <<>>
       /\ \A i \in 1..Len(intermediate_preds_list) : \A b \in Batch : \A n \in Points :
            intermediate_preds_list[i][b][n] =
              IF Inside(args.xyz[b][n]) THEN ClassifierOutput(i, b, n) ELSE 0
       /\ preds = Last(intermediate_preds_list)
  /\ (op = "forward" /\ ~ raised) => ret[1] = preds
  /\ (op = "get_preds") => ret = preds

C1_Witness ==
  /\ QueryDone
  /\ \E b \in Batch : \E n \in Points :
       /\ ~ Inside(args.xyz[b][n])
       /\ ClassifierOutput(1, b, n) # 0
       /\ preds[b][n] = 0
  /\ \E b \in Batch : \E n \in Points :
       /\ args.xyz[b][n][1] = 1 /\ args.xyz[b][n][2] = -1
       /\ preds[b][n] # 0

\* C2: not in training mode, filter leaves exactly the last stack of the image
\* filter in im_feat_list, pcd_filter leaves exactly the last output of the
\* volume filter in voxel_feat_list, and a forward call produces exactly one
\* intermediate prediction; in training mode both keep every stack in order.
C2_TestingKeepsLastStack ==
  /\ (op = "filter" /\ ~ training) =>
       im_feat_list = << [img |-> args.images, stack |-> num_stack] >>
  /\ (op = "pcd_filter" /\ ~ training) =>
       voxel_feat_list = << [vol |-> encode(occupancies), level |-> num_vol] >>
  /\ (op = "forward" /\ ~ training) => Len(intermediate_preds_list) = 1
  /\ (op = "filter" /\ training) =>
       /\ Len(im_feat_list) = num_stack
       /\ \A i \in 1..num_stack : im_feat_list[i] = [img |-> args.images, stack |-> i]
  /\ (op = "pcd_filter" /\ training) =>
       /\ Len(voxel_feat_list) = num_vol
       /\ \A j \in 1..num_vol : voxel_feat_list[j] = [vol |-> encode(occupancies), level |-> j]

C2_Witness ==
  /\ op = "forward" /\ ~ training /\ ~ raised
  /\ num_stack > 1 /\ num_vol > 1
  /\ Len(intermediate_preds_list) = 1
  /\ im_feat_list = << [img |-> args.images, stack |-> num_stack] >>

ErrorOf(l, lab) == [num |-> SumSeq([i \in 1..Len(l) |-> error_term(l[i], lab)]), den |-> Len(l)]

IsPrefix(a, b) == Len(a) <= Len(b) /\ SubSeq(b, 1, Len(a)) = a

\* C4: a forward call runs filter, pcd_filter, query, get_preds, get_error in
\* this order; the features query reads and the (res, error) it returns come
\* from the images, point cloud and points of that same call; a query made
\* while im_feat_list or voxel_feat_list is empty (query leaves an empty list
\* empty) raises and leaves no prediction.
C4_FeaturesPrecomputed ==
  /\ (op = "forward") =>
       /\ IsPrefix(calls, ForwardOrder)
       /\ (~ raised) =>
            /\ calls = ForwardOrder
            /\ \A i \in 1..Len(im_feat_list) : im_feat_list[i].img = args.images
            /\ \A j \in 1..Len(voxel_feat_list) : voxel_feat_list[j].vol = encode(occupancies)
            /\ \A b \in Batch : \A n \in 1..NumPcd : kd_idx[b][n] \in kdtree_query(args.pcd[b][n])
            /\ \A b \in Batch : \A c \in Cells :
                 occupancies[b][c] = IF \E n \in 1..NumPcd : kd_idx[b][n] = c THEN 1 ELSE 0
            /\ Len(intermediate_preds_list) = Min(Len(im_feat_list), Len(voxel_feat_list))
            /\ \A i \in 1..Len(intermediate_preds_list) :
                 intermediate_preds_list[i] =
                   pred_of(Self, im_feat_list[i], voxel_feat_list[i], args.xyz)
            /\ ret[1] = Last(intermediate_preds_list)
            /\ ret[2] = ErrorOf(intermediate_preds_list, labels)
  /\ (op = "query" /\ (im_feat_list = <<>> \/ voxel_feat_list = <<>>)) =>
       /\ raised
       /\ ret = None
       /\ intermediate_preds_list = <<>>
       /\ preds = None

C4_Witness ==
  /\ op = "forward" /\ ~ raised /\ calls = ForwardOrder
  /\ num_stack > 1
  /\ ret[1] = Last(intermediate_preds_list)
  /\ \A i \in 1..Len(im_feat_list) : im_feat_list[i].img = args.images

Marked(b) == {c \in Cells : occupancies[b][c] = 1}

\* C5: in the grid pcd_filter builds, every cell is 0 or 1, and a cell of batch
\* element b is 1 exactly when the k-d tree query returned it as the nearest
\* grid point of some point of pcd[b]; each point marks one cell, points on the
\* same cell leave it at 1, and no point of another batch element marks it.
C5_NearestNeighbourVoxelization ==
  (op = "pcd_filter") =>
    /\ \A b \in Batch : \A n \in 1..NumPcd : \A d \in Cells :
         Dist2(args.pcd[b][n], grid_points[kd_idx[b][n]]) <= Dist2(args.pcd[b][n], grid_points[d])
    /\ \A b \in Batch : \A c \in Cells :
         /\ occupancies[b][c] \in {0, 1}
         /\ occupancies[b][c] = 1 <=> \E n \in 1..NumPcd : kd_idx[b][n] = c
    /\ \A b \in Batch : Cardinality(Marked(b)) = Cardinality({kd_idx[b][n] : n \in 1..NumPcd})
    /\ \A j \in 1..Len(voxel_feat_list) : voxel_feat_list[j].vol = encode(occupancies)

C5_Witness ==
  /\ op = "pcd_filter"
  /\ kd_idx[1][1] = kd_idx[1][2]
  /\ Cardinality(Marked(1)) = 1
  /\ Cardinality(Marked(2)) = 2
  /\ Marked(2) \ Marked(1) # {}
  /\ Cardinality(kdtree_query(args.pcd[2][1])) > 1

====
